---------------------------- MODULE Spec2Model ----------------------------
(***************************************************************************)
(* A model of the SWIM membership engine of src/src/lib.rs.                *)
(*                                                                         *)
(* One Server is a record with the fields of `struct Server`.  A handler   *)
(* (join, process, tick) is an operator from a Server record to the SET of *)
(* Server records the call can return: the set has more than one element   *)
(* where the code draws from thread_rng() or iterates a HashMap.  A call   *)
(* that panics returns the record with status "panicked"; a call that      *)
(* never returns leaves it with status "hung".                             *)
(***************************************************************************)
EXTENDS Integers, Sequences, FiniteSets, TLC

\* ------------------------------------------------------------------ bounds

\* Largest local incarnation at which process() may still be called.
MaxInc == 2
\* Largest seq_no at which a call that sends a Ping or Ack may still start.
MaxSeq == 2
\* Largest value of the clock.
MaxTime == 3
\* Largest number of messages waiting in a node's outbox when a call starts.
MaxOutbox == 1
\* Largest number of messages in flight between the nodes of the cluster.
MaxNet == 2
\* The same four bounds for the single node of SpecNode.
NodeMaxInc == 3
NodeMaxSeq == 3
NodeMaxTime == 4
NodeMaxOutbox == 0
\* Largest incarnation in a message the environment hands to the node.
MaxMsgInc == 1
\* Largest seq_no in a message the environment hands to the node.
MaxMsgSeq == 2
\* Largest pingreq_subgroup_sz handed to Server::new.
MaxSubgroup == 2
\* Largest step of the clock between two calls.
MaxStep == 2
\* Largest membership size drawn for the rumor store specification.
MaxMembers == 9
\* Largest number of rumors pushed in the rumor store specification.
MaxRumors == 3

\* --------------------------------------------------------------- constants

PIGGYBACKED_MSGS == 10

\* Durations handed to Server::new, in clock units.
PingInterval == 0
ProtocolPeriod == 1
SuspicionPeriod0 == 2

Nodes == {1, 2, 3}

\* SocketAddr of the node with this id.
AddrOf(id) == 100 + id

NoAddr == 0

\* ------------------------------------------------------------ small helpers

Min(a, b) == IF a < b THEN a ELSE b

Max(a, b) == IF a > b THEN a ELSE b

Range(f) == {f[x] : x \in DOMAIN f}

\* Vec::insert(n, x) with n counted from 0.
InsertAt(seq, n, x) == SubSeq(seq, 1, n) \o <<x>> \o SubSeq(seq, n + 1, Len(seq))

\* Vec::pop in the place of swap_remove: the last element goes, whatever i.
PopLast(seq, i) == SubSeq(seq, 1, Len(seq) - 1)

\* Vec::swap_remove(i) with i counted from 1: the last element takes the place.
SwapRemove(seq, i) ==
    IF i = Len(seq) THEN SubSeq(seq, 1, Len(seq) - 1)
    ELSE [j \in 1..(Len(seq) - 1) |-> IF j = i THEN seq[Len(seq)] ELSE seq[j]]

\* The map m without key k.
MapRemove(m, k) == [x \in (DOMAIN m) \ {k} |-> m[x]]

\* The map m with key k set to v.
MapPut(m, k, v) == [x \in (DOMAIN m) \cup {k} |-> IF x = k THEN v ELSE m[x]]

EmptyMap == [x \in {} |-> 0]

\* All orders in which the elements of the finite set S can be visited.
RECURSIVE Orders(_)
Orders(S) ==
    IF S = {} THEN {<<>>}
    ELSE UNION {{<<x>> \o o : o \in Orders(S \ {x})} : x \in S}

\* All rearrangements of a sequence (slice::shuffle).
Shuffles(seq) ==
    {[i \in 1..Len(seq) |-> seq[p[i]]] : p \in Orders(1..Len(seq))}

\* ceil(log10(n)) for n >= 1, as (n as f32).log10().ceil() gives it for small n.
RECURSIVE CeilLog10(_)
CeilLog10(n) == IF n <= 1 THEN 0 ELSE 1 + CeilLog10((n + 9) \div 10)

\* -------------------------------------------------------------------- data

Rumor(peer_id, kind, incarnation, addr) ==
    [peer_id |-> peer_id, kind |-> kind, incarnation |-> incarnation, addr |-> addr]

Peer(id, addr, incarnation, state) ==
    [id |-> id, addr |-> addr, state |-> state, incarnation |-> incarnation]

Message(recipient, sender_id, sender, seq_no, kind, peer_id, inc, target, peers, gossip) ==
    [recipient |-> recipient, sender_id |-> sender_id, sender |-> sender,
     seq_no |-> seq_no, kind |-> kind, peer_id |-> peer_id, inc |-> inc,
     target |-> target, peers |-> peers, gossip |-> gossip]

\* h_in of a server whose last call was not process().
NoMessage == [kind |-> "None", seq_no |-> 0]

\* Server::new.  The h_ fields are history: they record what a call did and
\* are read by no handler.  h_failed and h_suspected are the peers the last
\* call pushed a Failed and a Suspect rumor of its own for; h_panic names the
\* assertion or unwrap on which the call panicked.
NewServer(id, k) ==
    [id |-> id, addr |-> AddrOf(id), seq_no |-> 1, incarnation |-> 1,
     pingreq_subgroup_sz |-> k, ping_interval |-> PingInterval,
     protocol_period |-> ProtocolPeriod, suspicion_period |-> SuspicionPeriod0,
     broadcasts |-> <<>>, next_broadcast |-> 0, pings |-> EmptyMap,
     last_pinged |-> 0, memberlist |-> <<>>, membership |-> EmptyMap,
     outbox |-> <<>>, status |-> "ok",
     h_call |-> "new", h_in |-> NoMessage, h_failed |-> {}, h_removed |-> EmptyMap,
     h_selfmax |-> -1, h_refutes |-> <<>>, h_attached |-> EmptyMap,
     h_suspected |-> {}, h_panic |-> "none"]

\* ----------------------------------------------------------- BroadcastStore

\* impl PartialOrd for Broadcast.  serialized is always Vec::new(), so `size`
\* is 0 in every entry the code builds.
PartialCmp(a, b) ==
    IF a.sends < b.sends THEN "Less"
    ELSE IF a.size > b.size THEN "Less"
    ELSE IF a.id < b.id THEN "Less"
    ELSE IF a.id > b.id THEN "Greater"
    ELSE "Equal"

\* a <= b as BinaryHeap evaluates it (PartialOrd::le, from partial_cmp).
Le(a, b) == PartialCmp(a, b) \in {"Less", "Equal"}

Swap(data, i, j) ==
    [x \in 1..Len(data) |-> IF x = i THEN data[j] ELSE IF x = j THEN data[i] ELSE data[x]]

\* BinaryHeap::sift_up(start, pos); positions are counted from 0 as in the
\* heap, data[p + 1] holds position p.
RECURSIVE SiftUp(_, _, _)
SiftUp(data, start, pos) ==
    IF pos > start
    THEN LET parent == (pos - 1) \div 2
         IN IF Le(data[pos + 1], data[parent + 1]) THEN data
            ELSE SiftUp(Swap(data, pos + 1, parent + 1), start, parent)
    ELSE data

\* BinaryHeap::sift_down_to_bottom(pos): the element goes down to a leaf along
\* the greater children and is then sifted up again.
RECURSIVE SiftDownToBottom(_, _, _)
SiftDownToBottom(data, start, pos) ==
    LET end == Len(data)
        child == 2 * pos + 1
    IN IF child + 2 <= end
       THEN LET c == IF Le(data[child + 1], data[child + 2]) THEN child + 1 ELSE child
            IN SiftDownToBottom(Swap(data, pos + 1, c + 1), start, c)
       ELSE IF child = end - 1
            THEN SiftUp(Swap(data, pos + 1, child + 1), start, child)
            ELSE SiftUp(data, start, pos)

\* BinaryHeap::push.
HeapPush(data, item) == SiftUp(Append(data, item), 0, Len(data))

\* BinaryHeap::pop on a non-empty heap: the entry returned and the heap left.
HeapPop(data) ==
    LET last == data[Len(data)]
        rest == SubSeq(data, 1, Len(data) - 1)
    IN IF rest = <<>> THEN [item |-> last, data |-> rest]
       ELSE [item |-> data[1],
             data |-> SiftDownToBottom([rest EXCEPT ![1] = last], 0, 0)]

\* S processed by F, a call that has panicked or hung being left as it is.
Then(S, F(_)) == UNION {IF x.status = "ok" THEN F(x) ELSE {x} : x \in S}

Panic(s) == [s EXCEPT !.status = "panicked"]

\* A panic on the check named.
PanicOn(s, check) == [Panic(s) EXCEPT !.h_panic = check]

\* BroadcastStore::push.  h_selfmax is the largest incarnation of a rumor
\* about the node itself that it has enqueued.
StorePush(s, rumor) ==
    [s EXCEPT
       !.broadcasts = HeapPush(@, [msg |-> rumor, size |-> 0, sends |-> 0,
                                   id |-> s.next_broadcast]),
       !.next_broadcast = @ + 1,
       !.h_selfmax = IF rumor.peer_id = s.id THEN Max(@, rumor.incarnation) ELSE @]

\* replay_broadcast without `broadcast.sends += 1`.
ReplayUncounted(data, broadcast) == HeapPush(data, broadcast)

\* BroadcastStore::replay_broadcast.
ReplayBroadcast(data, broadcast) ==
    HeapPush(data, [broadcast EXCEPT !.sends = @ + 1])

\* max_sends of Server::gossip: 3 * ((len + 2) as f32).log10().ceil() as u32.
MaxSends(n) == 3 * CeilLog10(n + 2)

\* The loop of Server::gossip: st.data the store, st.msgs the rumors chosen,
\* st.ids the store ids of the entries they were taken from.
RECURSIVE GossipLoop(_, _)
GossipLoop(st, max_sends) ==
    IF Len(st.msgs) < PIGGYBACKED_MSGS /\ st.data # <<>>
    THEN LET popped == HeapPop(st.data)
             update == popped.item
             data == IF update.sends < max_sends - 1
                     THEN ReplayBroadcast(popped.data, update)
                     ELSE popped.data
         IN GossipLoop([data |-> data, msgs |-> Append(st.msgs, update.msg),
                        ids |-> Append(st.ids, update.id)], max_sends)
    ELSE st

\* h_attached with one more attachment counted for every id of ids.
RECURSIVE CountAttached(_, _)
CountAttached(h, ids) ==
    IF ids = <<>> THEN h
    ELSE LET id == Head(ids)
         IN CountAttached(MapPut(h, id, IF id \in DOMAIN h THEN h[id] + 1 ELSE 1),
                          Tail(ids))

\* Server::gossip: the server afterwards and the rumors returned.
Gossip(s) ==
    LET max_sends == MaxSends(Cardinality(DOMAIN s.membership))
        st == GossipLoop([data |-> s.broadcasts, msgs |-> <<>>, ids |-> <<>>], max_sends)
    IN [server |-> [s EXCEPT !.suspicion_period = s.protocol_period * max_sends,
                             !.broadcasts = st.data,
                             !.h_attached = CountAttached(@, st.ids)],
        msgs |-> st.msgs]

\* Server::ack.
Ack(s, node, recipient) ==
    LET g == Gossip(s)
        m == Message(recipient, s.id, s.addr, s.seq_no, "Ack", node, s.incarnation,
                     NoAddr, <<>>, g.msgs)
    IN [g.server EXCEPT !.seq_no = @ + 1, !.outbox = Append(@, m)]

\* Server::ping.
Ping(s, node, addr, recipient, now) ==
    LET g == Gossip(s)
        m == Message(node, s.id, s.addr, s.seq_no, "Ping", 0, 0, NoAddr, <<>>, g.msgs)
        state == IF recipient # s.id THEN "FromElsewhere" ELSE "Normal"
    IN [g.server EXCEPT
          !.seq_no = @ + 1,
          !.pings = MapPut(@, node, [addr |-> addr, seq_no |-> s.seq_no,
                                     requester |-> recipient, state |-> state,
                                     sent_at |-> now]),
          !.outbox = Append(@, m)]

\* The values of a map in ascending order of their keys.
RECURSIVE ValuesOf(_)
ValuesOf(m) ==
    IF DOMAIN m = {} THEN <<>>
    ELSE LET k == CHOOSE x \in DOMAIN m : \A y \in DOMAIN m : x <= y
         IN <<m[k]>> \o ValuesOf(MapRemove(m, k))

\* current_membership without the local node: the stored peers only.
StoredPeersOnly(s) == ValuesOf(s.membership)

\* Server::current_membership.  HashMap::values() yields the peers in an
\* arbitrary order; every peer id occurs once among them, so the order only
\* decides where remember() inserts, which is random already.
CurrentMembership(s) ==
    <<Peer(s.id, s.addr, s.incarnation, "Alive")>> \o ValuesOf(s.membership)

\* remember that lets the entry seen last win: a known peer takes the
\* incarnation and state given, whatever its stored incarnation.
RememberLatest(s, id, addr, incarnation, state) ==
    IF id \in DOMAIN s.membership
    THEN {[s EXCEPT !.membership[id].incarnation = incarnation,
                    !.membership[id].state = state]}
    ELSE {[s EXCEPT !.memberlist = InsertAt(@, n, id),
                    !.membership = MapPut(@, id, Peer(id, addr, incarnation, state))]
          : n \in 0..Len(s.memberlist)}

\* Server::remember: one result for every index rng.gen_range(0..=len) can give.
Remember(s, id, addr, incarnation, state) ==
    IF id \in DOMAIN s.membership
    THEN IF incarnation > s.membership[id].incarnation
         THEN {[s EXCEPT !.membership[id].incarnation = incarnation,
                         !.membership[id].state = state]}
         ELSE {s}
    ELSE {[s EXCEPT !.memberlist = InsertAt(@, n, id),
                    !.membership = MapPut(@, id, Peer(id, addr, incarnation, state))]
          : n \in 0..Len(s.memberlist)}

\* Server::join.
Join(s, peer_id, addr) ==
    IF peer_id \in DOMAIN s.membership THEN s
    ELSE [s EXCEPT !.outbox = Append(@, Message(peer_id, s.id, s.addr, 0, "Pull", 0, 0,
                                                NoAddr, <<>>, <<>>))]

\* The first index (from 1) at which memberlist holds id, 0 when none does.
IndexOf(memberlist, id) ==
    IF \E i \in 1..Len(memberlist) : memberlist[i] = id
    THEN CHOOSE i \in 1..Len(memberlist) :
            memberlist[i] = id /\ \A j \in 1..(i - 1) : memberlist[j] # id
    ELSE 0

\* The rumor also replaces an entry of its own incarnation.
NewerOrSame(rumor, peer) == rumor.incarnation >= peer.incarnation

\* rumor.incarnation > peer.incarnation: the rumor replaces the entry stored.
Newer(rumor, peer) == rumor.incarnation > peer.incarnation

\* Server::process_gossip.  h_refutes lists, for every Suspect rumor about the
\* node itself that this process() call handled, the rumor's incarnation (i),
\* the incarnation of the Alive rumor enqueued (alive) and h_selfmax before.
\* h_removed[p] is the largest incarnation stored for p when a Failed rumor
\* removed it.
ProcessGossip(s, rumor) ==
    LET known == rumor.peer_id \in DOMAIN s.membership
    IN CASE rumor.kind = "Depart" -> {s}
       [] rumor.kind = "Alive" ->
            IF rumor.peer_id = s.id
            THEN {StorePush([s EXCEPT !.incarnation = @ + 1], rumor)}
            ELSE IF known
            THEN IF Newer(rumor, s.membership[rumor.peer_id])
                 THEN {StorePush([s EXCEPT
                          !.membership[rumor.peer_id].state = "Alive",
                          !.membership[rumor.peer_id].incarnation = rumor.incarnation],
                          rumor)}
                 ELSE {s}
            ELSE {StorePush(t, rumor) :
                    t \in Remember(s, rumor.peer_id, rumor.addr, rumor.incarnation, "Alive")}
       [] rumor.kind = "Suspect" ->
            IF rumor.peer_id = s.id
            THEN {StorePush([s EXCEPT !.h_refutes =
                               Append(@, [i |-> rumor.incarnation,
                                          alive |-> s.incarnation,
                                          prev |-> s.h_selfmax])],
                            Rumor(s.id, "Alive", s.incarnation, s.addr))}
            ELSE IF known
            THEN IF Newer(rumor, s.membership[rumor.peer_id])
                 THEN {StorePush([s EXCEPT
                          !.membership[rumor.peer_id].state = "Suspect",
                          !.membership[rumor.peer_id].incarnation = rumor.incarnation],
                          rumor)}
                 ELSE {s}
            ELSE {s}
       [] rumor.kind = "Failed" ->
            IF known
            THEN LET idx == IndexOf(s.memberlist, rumor.peer_id)
                     was == s.membership[rumor.peer_id].incarnation
                     gone == [s EXCEPT !.membership = MapRemove(@, rumor.peer_id)]
                 IN IF idx = 0 THEN {PanicOn(gone, "memberlist")}
                    ELSE {StorePush([gone EXCEPT
                             !.memberlist = SwapRemove(@, idx),
                             !.h_removed = MapPut(@, rumor.peer_id,
                                 IF rumor.peer_id \in DOMAIN @
                                 THEN Max(@[rumor.peer_id], was) ELSE was)],
                             rumor)}
            ELSE {s}

\* for rumor in msg.gossip.iter() { self.process_gossip(rumor) }
RECURSIVE ProcessAllGossip(_, _)
ProcessAllGossip(s, gossip) ==
    IF gossip = <<>> THEN {s}
    ELSE Then(ProcessGossip(s, Head(gossip)),
              LAMBDA t : ProcessAllGossip(t, Tail(gossip)))

\* for peer in peers { self.remember(peer.id, peer.addr, peer.incarnation, peer.state) }
RECURSIVE RememberAll(_, _)
RememberAll(s, peers) ==
    IF peers = <<>> THEN {s}
    ELSE Then(Remember(s, Head(peers).id, Head(peers).addr, Head(peers).incarnation,
                       Head(peers).state),
              LAMBDA t : RememberAll(t, Tail(peers)))

\* The MsgKind::Ack arm of Server::process: the servers it leaves, each with
\* whether the arm returned from process() (so that the gossip is skipped).
ProcessAck(s, msg) ==
    IF msg.peer_id \notin DOMAIN s.pings THEN {[server |-> s, returned |-> TRUE]}
    ELSE LET ping == s.pings[msg.peer_id]
             s1 == [s EXCEPT !.pings = MapRemove(@, msg.peer_id)]
         IN IF ping.seq_no # msg.seq_no THEN {[server |-> s1, returned |-> TRUE]}
            ELSE LET s2 == IF ping.requester # s.id
                           THEN Ack(s1, msg.peer_id, ping.requester) ELSE s1
                     rumor == Rumor(msg.peer_id, "Alive", msg.inc,
                                    IF msg.peer_id \in DOMAIN s2.membership
                                    THEN s2.membership[msg.peer_id].addr ELSE ping.addr)
                 IN IF msg.peer_id \in DOMAIN s2.membership
                    THEN IF s2.membership[msg.peer_id].state # "Failed"
                            /\ msg.inc > s2.membership[msg.peer_id].incarnation
                         THEN {[server |-> StorePush([s2 EXCEPT
                                   !.membership[msg.peer_id].state = "Alive",
                                   !.membership[msg.peer_id].incarnation = msg.inc],
                                   rumor),
                                returned |-> FALSE]}
                         ELSE {[server |-> s2, returned |-> FALSE]}
                    ELSE {[server |-> StorePush(t, rumor), returned |-> FALSE] :
                            t \in Remember(s2, msg.peer_id, ping.addr, msg.inc, "Alive")}

\* The match of Server::process on msg.kind, for the other kinds.
ProcessKind(s, msg, now) ==
    CASE msg.kind = "Push" -> RememberAll(s, msg.peers)
      [] msg.kind = "Pull" ->
            LET our_peers == CurrentMembership(s)
                g == Gossip(s)
                m == Message(msg.sender_id, s.id, s.addr, 0, "Push", 0, 0, NoAddr,
                             our_peers, g.msgs)
            IN RememberAll([g.server EXCEPT !.outbox = Append(@, m)], msg.peers)
      [] msg.kind = "Ping" -> {Ack(s, s.id, msg.sender_id)}
      [] msg.kind = "PingReq" ->
            IF msg.peer_id = s.id THEN {Ack(s, s.id, msg.sender_id)}
            ELSE {Ping(s, msg.peer_id, msg.target, msg.sender_id, now)}

\* Server::process.
Process(s, msg, now) ==
    LET s1 == [s EXCEPT !.incarnation = @ + 1, !.h_call = "process",
                        !.h_in = [kind |-> msg.kind, seq_no |-> msg.seq_no],
                        !.h_refutes = <<>>, !.h_failed = {}, !.h_suspected = {}]
    IN IF msg.recipient # s.id THEN {PanicOn(s1, "recipient")}
       ELSE Then(Remember(s1, msg.sender_id, msg.sender, 0, "Alive"),
                 LAMBDA s2 :
                    IF msg.kind = "Ack"
                    THEN UNION {IF r.returned THEN {r.server}
                                ELSE ProcessAllGossip(r.server, msg.gossip)
                                : r \in ProcessAck(s2, msg)}
                    ELSE Then(ProcessKind(s2, msg, now),
                              LAMBDA s3 : ProcessAllGossip(s3, msg.gossip)))

\* All sequences of k distinct elements of the set C.
RECURSIVE Picks(_, _)
Picks(C, k) ==
    IF k = 0 THEN {<<>>}
    ELSE UNION {{<<x>> \o p : p \in Picks(C \ {x}, k - 1)} : x \in C}

\* The body of the recipient loop of Server::tick for the recipients chosen,
\* in the order they were chosen: a PingReq to each, with the seq_no of the
\* ping it stands for.
RECURSIVE SendPingReqs(_, _, _, _)
SendPingReqs(s, node, ping, recipients) ==
    IF recipients = <<>> THEN s
    ELSE LET g == Gossip(s)
             m == Message(Head(recipients), s.id, s.addr, ping.seq_no, "PingReq", node, 0,
                          ping.addr, <<>>, g.msgs)
         IN SendPingReqs([g.server EXCEPT !.outbox = Append(@, m)], node, ping,
                         Tail(recipients))

\* The recipients the loop `while chosen.len() < subgroup_sz` can choose from:
\* members other than the ping's target.
Candidates(s, node) == {r \in Range(s.memberlist) : r # node}

\* The indirect-ping arm of Server::tick for a Normal ping on `node`.  The
\* loop ends when it has chosen subgroup_sz members; it never does when fewer
\* members than that are candidates.
PromotePing(ls, node) ==
    LET s == ls.s
        ping == s.pings[node]
        subgroup_sz == Min(s.pingreq_subgroup_sz, Len(s.memberlist))
        incarnation == IF node \in DOMAIN s.membership
                       THEN s.membership[node].incarnation ELSE 0
    IN IF Len(s.memberlist) <= 1
       THEN {[s |-> StorePush([s EXCEPT !.h_suspected = @ \cup {node}],
                              Rumor(node, "Suspect", incarnation, NoAddr)),
              to_rm |-> ls.to_rm \cup {node}]}
       ELSE IF Cardinality(Candidates(s, node)) < subgroup_sz
       THEN {[ls EXCEPT !.s.status = "hung"]}
       ELSE {[s |-> [SendPingReqs(s, node, ping, recipients)
                       EXCEPT !.pings[node].state = "Forwarded"],
              to_rm |-> ls.to_rm]
             : recipients \in Picks(Candidates(s, node), subgroup_sz)}

\* One iteration of `for (node, ping) in pings.iter_mut()` of Server::tick.
\* ls.s.pings stands for the local `pings`, ls.to_rm for `to_rm`.
TickPing(ls, node, now) ==
    LET s == ls.s
        ping == s.pings[node]
        member == node \in DOMAIN s.membership
    IN IF now > ping.sent_at + s.suspicion_period
       THEN IF ping.state # "Forwarded" THEN {[ls EXCEPT !.s = PanicOn(s, "forwarded")]}
            ELSE IF ~member THEN {[ls EXCEPT !.s = PanicOn(s, "member")]}
            ELSE {[s |-> StorePush([s EXCEPT !.h_failed = @ \cup {node}],
                                   Rumor(node, "Failed", s.membership[node].incarnation,
                                         NoAddr)),
                   to_rm |-> ls.to_rm \cup {node}]}
       ELSE IF now > ping.sent_at + s.protocol_period
       THEN IF ping.state = "FromElsewhere" \/ ~member
            THEN {[ls EXCEPT !.to_rm = @ \cup {node}]}
            ELSE {[ls EXCEPT !.s = StorePush([s EXCEPT !.h_suspected = @ \cup {node}],
                                             Rumor(node, "Suspect",
                                                   s.membership[node].incarnation,
                                                   NoAddr))]}
       ELSE IF ping.state # "Forwarded" /\ now > ping.sent_at + s.ping_interval
       THEN IF ping.state # "Normal" THEN {[ls EXCEPT !.to_rm = @ \cup {node}]}
            ELSE PromotePing(ls, node)
       ELSE {ls}

\* The loop over the pending pings, visited in `order`.
RECURSIVE TickPings(_, _, _)
TickPings(ls, order, now) ==
    IF order = <<>> \/ ls.s.status # "ok" THEN {ls}
    ELSE UNION {TickPings(l, Tail(order), now) : l \in TickPing(ls, Head(order), now)}

\* The end of Server::tick: the expired pings are dropped and the next member
\* of the round is pinged.
TickSend(ls, now) ==
    LET s == [ls.s EXCEPT !.pings = [n \in (DOMAIN @) \ ls.to_rm |-> @[n]]]
    IN IF s.status # "ok" \/ DOMAIN s.membership = {} THEN s
       ELSE IF Len(s.memberlist) # Cardinality(DOMAIN s.membership)
            THEN PanicOn(s, "lengths")
       ELSE LET ping_rcpt == s.memberlist[s.last_pinged + 1]
            IN IF ping_rcpt \notin DOMAIN s.membership THEN PanicOn(s, "ping_rcpt")
               ELSE [Ping(s, ping_rcpt, s.membership[ping_rcpt].addr, s.id, now)
                       EXCEPT !.last_pinged = @ + 1]

\* Server::tick: the servers the call can leave.  The outbox of a result is
\* what the call returns; the caller of Tick takes it.
Tick(s, now) ==
    LET s0 == [s EXCEPT !.h_call = "tick", !.h_in = NoMessage, !.h_refutes = <<>>,
                        !.h_failed = {}, !.h_suspected = {}]
        shuffled == IF s0.last_pinged >= Len(s0.memberlist)
                    THEN {[s0 EXCEPT !.memberlist = m, !.last_pinged = 0]
                          : m \in Shuffles(s0.memberlist)}
                    ELSE {s0}
    IN {TickSend(ls, now) :
          ls \in UNION {UNION {TickPings([s |-> s1, to_rm |-> {}], order, now)
                               : order \in Orders(DOMAIN s1.pings)}
                        : s1 \in shuffled}}

\* ------------------------------------------------------------- the cluster

VARIABLES
    server,   \* server[n]: the Server of node n
    net,      \* the messages tick() has returned and no node has processed yet
    now,      \* what Instant::now() returns
    turn      \* how many calls of Schedule the driver has made (SpecRelay)

vars == <<server, net, now, turn>>

\* Every node as Server::new leaves it, all with the same configuration.
Init ==
    /\ \E k \in 1..MaxSubgroup : server = [n \in Nodes |-> NewServer(n, k)]
    /\ net = {}
    /\ now = 0
    /\ turn = 0

Running(n) == server[n].status = "ok"

\* Node n calls join(p, addr of p).
DoJoin(n, p) ==
    /\ Running(n)
    /\ server' = [server EXCEPT ![n] = [Join(@, p, AddrOf(p)) EXCEPT !.h_call = "join",
                                          !.h_in = NoMessage, !.h_refutes = <<>>,
                                          !.h_failed = {}, !.h_suspected = {}]]
    /\ UNCHANGED <<net, now>>

\* What a finished tick() returns: the outbox, which it takes.  A call that
\* panicked or hangs returns nothing.
Returned(t) == IF t.status = "ok" THEN Range(t.outbox) ELSE {}

AfterTick(t) == IF t.status = "ok" THEN [t EXCEPT !.outbox = <<>>] ELSE t

\* Node n calls tick() and the messages returned are sent.
DoTick(n) ==
    /\ Running(n)
    /\ \E t \in Tick(server[n], now) :
          /\ server' = [server EXCEPT ![n] = AfterTick(t)]
          /\ net' = net \cup Returned(t)
    /\ UNCHANGED now

\* Node n calls process(m).
DoProcess(n, m) ==
    /\ Running(n)
    /\ \E t \in Process(server[n], m, now) : server' = [server EXCEPT ![n] = t]
    /\ UNCHANGED now

\* The guards that keep the counters of node n within the bounds.
MayTick(n) == server[n].seq_no <= MaxSeq

MaySend(n) ==
    /\ MayTick(n)
    /\ Len(server[n].outbox) <= MaxOutbox

MayProcess(n) ==
    /\ server[n].incarnation < MaxInc
    /\ MaySend(n)

JoinCall(n, p) ==
    /\ MaySend(n)
    /\ DoJoin(n, p)
    /\ UNCHANGED turn

TickCall(n) ==
    /\ MayTick(n)
    /\ DoTick(n)
    /\ Cardinality(net') <= MaxNet
    /\ UNCHANGED turn

\* The recipient of message m in flight processes it.
Deliver(m) ==
    /\ MayProcess(m.recipient)
    /\ DoProcess(m.recipient, m)
    /\ net' = net \ {m}
    /\ UNCHANGED turn

\* The transport loses message m.
Lose(m) ==
    /\ net' = net \ {m}
    /\ UNCHANGED <<server, now, turn>>

\* Time passes.
Advance(d) ==
    /\ now + d <= MaxTime
    /\ now' = now + d
    /\ UNCHANGED <<server, net, turn>>

\* The nodes that run in Spec; the others stay as constructed.
Cluster == {1, 2}

Next ==
    \/ \E n \in Cluster : \E p \in Cluster \ {n} : JoinCall(n, p)
    \/ \E n \in Cluster : TickCall(n)
    \/ \E m \in net : Deliver(m)
    \/ \E m \in net : Lose(m)
    \/ \E d \in 1..MaxStep : Advance(d)

Spec == Init /\ [][Next]_vars

\* C2: a node's own id is never a key of its own membership map nor in its
\* own memberlist, and no Ping it has emitted is addressed to itself.
NeverStoresSelf ==
    \A n \in Nodes :
       /\ n \notin DOMAIN server[n].membership
       /\ n \notin Range(server[n].memberlist)
       /\ \A m \in Range(server[n].outbox) \cup net :
             m.sender_id = n /\ m.kind = "Ping" => m.recipient # n

\* The ids a peer list names.
PeerIds(peers) == {peers[i].id : i \in DOMAIN peers}

\* The peer list has an entry for id whose state is Alive.
ListsAlive(peers, id) == \E i \in DOMAIN peers : peers[i].id = id /\ peers[i].state = "Alive"

\* C11: the join exchange.  join() of a node that knows no peer leaves a Pull
\* for the peer named, which the node's next tick() returns; the peer's
\* process() of the Pull leaves a Push for the node that lists both of them;
\* and after the node's process() of that Push its current_membership() has
\* both ids as Alive.
JoinExchange ==
    [][\A a \in Cluster : \A b \in Cluster \ {a} :
          /\ JoinCall(a, b) /\ DOMAIN server[a].membership = {} =>
                \E i \in DOMAIN server'[a].outbox :
                   server'[a].outbox[i].kind = "Pull" /\ server'[a].outbox[i].recipient = b
          /\ TickCall(a) /\ server'[a].status = "ok" => Range(server[a].outbox) \subseteq net'
          /\ \A m \in net :
                /\ Deliver(m) /\ m.kind = "Pull" /\ m.sender_id = a /\ m.recipient = b =>
                      \E i \in DOMAIN server'[b].outbox :
                         /\ server'[b].outbox[i].kind = "Push"
                         /\ server'[b].outbox[i].recipient = a
                         /\ {a, b} \subseteq PeerIds(server'[b].outbox[i].peers)
                /\ Deliver(m) /\ m.kind = "Push" /\ m.sender_id = b /\ m.recipient = a
                   /\ {a, b} \subseteq PeerIds(m.peers) =>
                      /\ ListsAlive(CurrentMembership(server'[a]), a)
                      /\ ListsAlive(CurrentMembership(server'[a]), b)]_vars

\* A node has processed the Push that answered its join and holds the peer.
JoinedThroughPush ==
    \E a \in Cluster : \E b \in Cluster \ {a} :
       /\ server[a].h_call = "process"
       /\ server[a].h_in.kind = "Push"
       /\ server[a].status = "ok"
       /\ b \in DOMAIN server[a].membership

\* ----------------------------------------------------- one node, any input

\* The node whose calls SpecNode makes; the other ids are peers the
\* environment speaks for.
Self == 1

Senders == Nodes \ {Self}

\* The rumors of the environment: about the node itself and about peer 2.
EnvRumors ==
    {Rumor(p, k, i, IF k = "Alive" THEN AddrOf(p) ELSE NoAddr) :
        p \in {Self, 2}, k \in {"Alive", "Suspect", "Failed"}, i \in 0..MaxMsgInc}
    \cup {Rumor(2, "Depart", 0, NoAddr)}

\* Gossip tails of at most two rumors.
EnvGossip ==
    {<<>>} \cup {<<r>> : r \in EnvRumors} \cup {<<r, q>> : r \in EnvRumors, q \in EnvRumors}

\* The peer lists of a Push: what current_membership() of a sender can hold.
EnvPeers ==
    {<<>>} \cup {<<Peer(p, AddrOf(p), i, "Alive")>> : p \in Nodes, i \in 0..MaxMsgInc}

\* The messages the environment may hand to process(): a message of every
\* kind without gossip from either peer, and a Ping with every gossip tail.
EnvMessages ==
    LET Msg(from, seq, kind, peer_id, inc, target, peers, gossip) ==
            Message(Self, from, AddrOf(from), seq, kind, peer_id, inc, target, peers, gossip)
    IN UNION {
         {Msg(from, seq, "Ping", 0, 0, NoAddr, <<>>, <<>>) : seq \in 1..MaxMsgSeq}
         \cup {Msg(from, seq, "Ack", 2, i, NoAddr, <<>>, <<>>) :
                 seq \in 1..MaxMsgSeq, i \in 0..MaxMsgInc}
         \cup {Msg(from, 1, "PingReq", p, 0, AddrOf(p), <<>>, <<>>) : p \in {Self, 2}}
         \cup {Msg(from, 0, "Pull", 0, 0, NoAddr, <<>>, <<>>)}
         \cup {Msg(from, 0, "Push", 0, 0, NoAddr, peers, <<>>) : peers \in EnvPeers}
         : from \in Senders}
       \cup {Msg(3, 1, "Ping", 0, 0, NoAddr, <<>>, g) : g \in EnvGossip}

NodeMayTick == server[Self].seq_no <= NodeMaxSeq

NodeMaySend ==
    /\ NodeMayTick
    /\ Len(server[Self].outbox) <= NodeMaxOutbox

\* The node calls join(p, addr of p).
EnvJoin(p) ==
    /\ NodeMaySend
    /\ DoJoin(Self, p)
    /\ UNCHANGED turn

\* The node calls tick(); the environment takes the messages returned.
EnvTick ==
    /\ NodeMayTick
    /\ Running(Self)
    /\ \E t \in Tick(server[Self], now) : server' = [server EXCEPT ![Self] = AfterTick(t)]
    /\ UNCHANGED <<net, now, turn>>

\* The node calls process(m) for a message m of the environment.
EnvProcess(m) ==
    /\ NodeMaySend
    /\ server[Self].incarnation < NodeMaxInc
    /\ DoProcess(Self, m)
    /\ UNCHANGED <<net, turn>>

EnvAdvance(d) ==
    /\ now + d <= NodeMaxTime
    /\ now' = now + d
    /\ UNCHANGED <<server, net, turn>>

NextNode ==
    \/ \E p \in Senders : EnvJoin(p)
    \/ EnvTick
    \/ \E m \in EnvMessages : EnvProcess(m)
    \/ \E d \in 1..MaxStep : EnvAdvance(d)

SpecNode == Init /\ [][NextNode]_vars

\* C1: the memberlist has no duplicate ids and holds exactly the keys of the
\* membership map.
MemberlistMatchesMembership ==
    \A n \in Nodes :
       /\ Range(server[n].memberlist) = DOMAIN server[n].membership
       /\ Len(server[n].memberlist) = Cardinality(DOMAIN server[n].membership)

\* A Failed rumor has removed a peer, another peer is left and the node has
\* gone through a tick() since.
RemovedAndTicked ==
    /\ DOMAIN server[Self].h_removed # {}
    /\ server[Self].memberlist # <<>>
    /\ server[Self].h_call = "tick"
    /\ server[Self].status = "ok"

\* C3: no call to tick() fails to return.
TickTerminates == \A n \in Nodes : server[n].status # "hung"

\* C4: when tick() has emitted a Failed rumor for a peer, the peer is in
\* neither the membership map nor the memberlist when tick() returns.
FailedPeerRemoved ==
    \A n \in Nodes :
       server[n].h_call = "tick" /\ server[n].status = "ok" =>
          \A b \in server[n].h_failed :
             /\ b \notin DOMAIN server[n].membership
             /\ b \notin Range(server[n].memberlist)

\* C5: a peer that a Failed rumor removed while incarnation i was stored for
\* it is in the membership map again only with an incarnation greater than i.
ReadmittedOnlyHigher ==
    \A n \in Nodes :
       \A b \in DOMAIN server[n].h_removed \cap DOMAIN server[n].membership :
          server[n].membership[b].incarnation > server[n].h_removed[b]

\* C6: no call lowers the incarnation stored for a peer that is in the
\* membership map before and after the call.
IncarnationNeverLowered ==
    [][\A n \in Nodes :
          \A b \in DOMAIN server[n].membership \cap DOMAIN server'[n].membership :
             server'[n].membership[b].incarnation >= server[n].membership[b].incarnation]_vars

\* C7: the Alive rumor a node enqueues on a Suspect rumor about itself has an
\* incarnation greater than that of every rumor about itself it enqueued
\* before.
RefutationExceedsEarlier ==
    \A n \in Nodes :
       \A j \in 1..Len(server[n].h_refutes) :
          server[n].h_refutes[j].alive > server[n].h_refutes[j].prev

\* C10: the Ack a node emits when it has processed a Ping carries the seq_no
\* of the Ping.
AckEchoesSeqNo ==
    \A n \in Nodes :
       server[n].h_call = "process" /\ server[n].h_in.kind = "Ping"
       /\ server[n].status = "ok" =>
          LET ack == server[n].outbox[Len(server[n].outbox)]
          IN ack.kind = "Ack" /\ ack.seq_no = server[n].h_in.seq_no

\* The positions of the outbox at which a PingReq for target b stands.
PingReqsFor(outbox, b) ==
    {i \in DOMAIN outbox : outbox[i].kind = "PingReq" /\ outbox[i].peer_id = b}

\* C12: when tick() finds a Normal pending ping for b sent more than
\* ping_interval and at most protocol_period ago and the memberlist holds more
\* than one peer, it returns, with a PingReq for b to exactly
\* min(pingreq_subgroup_sz, |memberlist| - 1) distinct recipients other than b,
\* each with the seq_no of the ping, and the entry is Forwarded (unless the
\* same tick() has pinged b anew).
PingReqToSubgroup ==
    LET s == server[Self]
    IN s.status = "ok" =>
       \A t \in Tick(s, now) : \A b \in DOMAIN s.pings :
          /\ s.pings[b].state = "Normal"
          /\ now > s.pings[b].sent_at + s.ping_interval
          /\ now <= s.pings[b].sent_at + s.protocol_period
          /\ now <= s.pings[b].sent_at + s.suspicion_period
          /\ Len(s.memberlist) > 1
          => /\ t.status = "ok"
             /\ LET reqs == PingReqsFor(t.outbox, b)
                IN /\ Cardinality(reqs) = Min(s.pingreq_subgroup_sz, Len(s.memberlist) - 1)
                   /\ \A i \in reqs : \A j \in reqs :
                         t.outbox[i].recipient = t.outbox[j].recipient => i = j
                   /\ \A i \in reqs :
                         /\ t.outbox[i].recipient # b
                         /\ t.outbox[i].seq_no = s.pings[b].seq_no
             /\ b \in DOMAIN t.pings
             /\ t.pings[b].state = "Forwarded" \/ t.pings[b].seq_no # s.pings[b].seq_no

\* What the gossip rules can change of a node: the membership map, the
\* memberlist, the local incarnation and the contents of the broadcast store.
GossipState(s) ==
    [membership |-> s.membership, memberlist |-> s.memberlist,
     incarnation |-> s.incarnation, broadcasts |-> s.broadcasts]

\* C13: a rumor applied a second time by process_gossip leaves the node as
\* the first application left it.
RumorTwiceIsOnce ==
    server[Self].status = "ok" =>
       \A rumor \in EnvRumors :
          \A once \in ProcessGossip(server[Self], rumor) :
             once.status = "ok" =>
                \A twice \in ProcessGossip(once, rumor) :
                   GossipState(twice) = GossipState(once)

\* C16: a pending ping that tick() finds older than suspicion_period is in state
\* Forwarded: the assertion of the suspicion branch never fails, whenever the
\* calls of tick() are made.
ExpiredPingIsForwarded == server[Self].h_panic # "forwarded"

\* Message m carries a Failed rumor about peer t.
CarriesFailed(m, t) ==
    \E i \in DOMAIN m.gossip : m.gossip[i].kind = "Failed" /\ m.gossip[i].peer_id = t

\* C17: the pending ping for a target leaves the table only when an Ack about
\* the target with the seq_no of the ping is processed, in a tick(), or when a
\* Failed rumor about the target is processed; an Ack with another seq_no
\* leaves it in the table.
PingLeavesByAckOrExpiry ==
    [][\A t \in DOMAIN server[Self].pings :
          t \notin DOMAIN server'[Self].pings /\ server'[Self].status = "ok" =>
             \/ server'[Self].h_call = "tick"
             \/ \E m \in EnvMessages :
                   /\ EnvProcess(m)
                   /\ \/ /\ m.kind = "Ack"
                         /\ m.peer_id = t
                         /\ m.seq_no = server[Self].pings[t].seq_no
                      \/ CarriesFailed(m, t)]_vars

\* Rumor r is about a peer other than the node that the node knows, and is no
\* newer than the entry stored for it.
Stale(s, r) ==
    /\ r.kind \in {"Alive", "Suspect"}
    /\ r.peer_id # s.id
    /\ r.peer_id \in DOMAIN s.membership
    /\ r.incarnation <= s.membership[r.peer_id].incarnation

\* C19: an Alive or Suspect rumor about a known peer other than the node whose
\* incarnation is not above the one stored changes nothing: the peer's state
\* and incarnation, the memberlist, the node's incarnation and the broadcast
\* store are as before.
StaleRumorIgnored ==
    LET s == server[Self]
    IN s.status = "ok" =>
          \A r \in EnvRumors :
             Stale(s, r) =>
                \A t \in ProcessGossip(s, r) :
                   t.status = "ok" /\ GossipState(t) = GossipState(s)

\* Peer 2 is stored as Suspect at the largest incarnation of the rumors, and
\* an Alive rumor of that incarnation about it is processed.
SuspectMeetsStaleAlive ==
    LET s == server[Self]
        r == Rumor(2, "Alive", MaxMsgInc, AddrOf(2))
    IN /\ s.status = "ok"
       /\ s.h_call = "process"
       /\ Stale(s, r)
       /\ s.membership[2].state = "Suspect"
       /\ s.membership[2].incarnation = MaxMsgInc
       /\ s.broadcasts # <<>>
       /\ \E t \in ProcessGossip(s, r) : t.membership[2].state = "Suspect"

\* ------------------------------------------- three nodes under one driver

\* The calls the driver of SpecRelay makes, in this order: nodes 2 and 3 join
\* node 1; node 1 pings, its ping of one peer goes unanswered and it asks the
\* other peer to ping for it; the answer comes back through that peer; node 1
\* pings again, gets no answer and spreads its suspicion.  Which message of
\* the named sender a process call takes, how far time advances and every
\* random choice of the code are left open.
Call(call, node, peer) == [call |-> call, node |-> node, peer |-> peer]

Schedule ==
    <<Call("join", 2, 1), Call("tick", 2, 0), Call("join", 3, 1), Call("tick", 3, 0),
      Call("process", 1, 2), Call("process", 1, 3),
      Call("tick", 1, 0), Call("tick", 1, 0), Call("tick", 1, 0),
      Call("advance", 0, 0), Call("tick", 1, 0),
      Call("process", 3, 1), Call("tick", 3, 0),
      Call("process", 2, 3), Call("tick", 2, 0),
      Call("process", 3, 2), Call("tick", 3, 0),
      Call("process", 1, 3), Call("tick", 1, 0),
      Call("advance", 0, 0), Call("tick", 1, 0),
      Call("process", 3, 1), Call("tick", 3, 0),
      Call("process", 2, 3)>>

\* The driver's next call is `call`.
Due(call) ==
    /\ turn < Len(Schedule)
    /\ Schedule[turn + 1].call = call
    /\ turn' = turn + 1

RelayJoin ==
    /\ Due("join")
    /\ DoJoin(Schedule[turn + 1].node, Schedule[turn + 1].peer)

RelayTick ==
    /\ Due("tick")
    /\ DoTick(Schedule[turn + 1].node)

\* The node due processes a message in flight that the named peer sent it.
RelayProcess(m) ==
    /\ Due("process")
    /\ m.recipient = Schedule[turn + 1].node
    /\ m.sender_id = Schedule[turn + 1].peer
    /\ DoProcess(m.recipient, m)
    /\ net' = net \ {m}

RelayAdvance(d) ==
    /\ Due("advance")
    /\ now' = now + d
    /\ UNCHANGED <<server, net>>

NextRelay ==
    \/ RelayJoin
    \/ RelayTick
    \/ \E m \in net : RelayProcess(m)
    \/ \E d \in 1..MaxStep : RelayAdvance(d)

SpecRelay == Init /\ [][NextRelay]_vars

\* C8: the Alive rumor a node enqueues on a Suspect rumor about itself has an
\* incarnation greater than the Suspect rumor's.
RefutationExceedsSuspicion ==
    \A n \in Nodes :
       \A j \in 1..Len(server[n].h_refutes) :
          server[n].h_refutes[j].alive > server[n].h_refutes[j].i

\* ------------------------------------------------- merging Pull and Push

\* Largest incarnation in a peer list of SpecMerge.
MaxMergeInc == 2
\* Largest number of process() calls in a behaviour of SpecMerge.
MaxMergeCalls == 2

\* A second SocketAddr for the node with this id: where it is after a move.
MovedAddrOf(id) == 110 + id

\* The Peer entries of the lists of SpecMerge: peer 2 and the sender, at
\* either address, with every incarnation and as Alive or Suspect.
MergePeers ==
    UNION {{Peer(p, addr, i, state) :
              addr \in {AddrOf(p), MovedAddrOf(p)}, i \in 0..MaxMergeInc,
              state \in {"Alive", "Suspect"}}
           : p \in {2, 3}}

\* The peer lists of SpecMerge: none or one entry.
MergeLists == {<<>>} \cup {<<p>> : p \in MergePeers}

\* Pull(peers) and Push(peers) as node 3 sends them to the node.
PullOf(peers) == Message(Self, 3, AddrOf(3), 0, "Pull", 0, 0, NoAddr, peers, <<>>)

PushOf(peers) == Message(Self, 3, AddrOf(3), 0, "Push", 0, 0, NoAddr, peers, <<>>)

\* The node calls process(m) for a Pull or a Push of node 3.
MergeCall(m) ==
    /\ server[Self].incarnation <= MaxMergeCalls
    /\ DoProcess(Self, m)
    /\ UNCHANGED <<net, turn>>

NextMerge ==
    \/ \E peers \in MergeLists : MergeCall(PullOf(peers))
    \/ \E peers \in MergeLists : MergeCall(PushOf(peers))

SpecMerge == Init /\ [][NextMerge]_vars

\* The incarnations given for peer id in a list, and the one stored for it.
ListedIncs(peers, id) == {peers[i].incarnation : i \in {j \in DOMAIN peers : peers[j].id = id}}

StoredIncs(s, id) == IF id \in DOMAIN s.membership THEN {s.membership[id].incarnation} ELSE {}

\* No incarnation is given twice for the same peer id by X, Y and the map of s.
DistinctIncs(s, X, Y) ==
    \A id \in PeerIds(X) \cup PeerIds(Y) :
       /\ ListedIncs(X, id) \cap ListedIncs(Y, id) = {}
       /\ ListedIncs(X, id) \cap StoredIncs(s, id) = {}
       /\ ListedIncs(Y, id) \cap StoredIncs(s, id) = {}

\* The membership maps that process(first) followed by process(second) can leave.
MergedMaps(s, first, second) ==
    {t.membership :
        t \in Then(Process(s, first, now), LAMBDA u : Process(u, second, now))}

\* The addresses given for peer id in a list, and the one stored for it.
ListedAddrs(peers, id) == {peers[i].addr : i \in {j \in DOMAIN peers : peers[j].id = id}}

StoredAddrs(s, id) == IF id \in DOMAIN s.membership THEN {s.membership[id].addr} ELSE {}

\* X, Y, the map of s and the sender's own address give one address for a peer id.
SameAddrs(s, X, Y) ==
    \A id \in PeerIds(X) \cup PeerIds(Y) :
       Cardinality(ListedAddrs(X, id) \cup ListedAddrs(Y, id) \cup StoredAddrs(s, id)
                   \cup (IF id = 3 THEN {AddrOf(3)} ELSE {})) = 1

\* C14, as the specification words it: Pull(X) then Push(Y) leaves the membership map that Push(Y) then
\* Pull(X) leaves, when the incarnations given for a peer are distinct.
PullPushCommute ==
    \A X \in MergeLists : \A Y \in MergeLists :
       DistinctIncs(server[Self], X, Y) =>
          MergedMaps(server[Self], PullOf(X), PushOf(Y))
             = MergedMaps(server[Self], PushOf(Y), PullOf(X))

\* C14: Pull(X) then Push(Y) leaves the membership map that Push(Y) then
\* Pull(X) leaves, when the incarnations given for a peer are distinct and
\* the addresses given for it are the same.
PullPushCommuteSameAddrs ==
    \A X \in MergeLists : \A Y \in MergeLists :
       DistinctIncs(server[Self], X, Y) /\ SameAddrs(server[Self], X, Y) =>
          MergedMaps(server[Self], PullOf(X), PushOf(Y))
             = MergedMaps(server[Self], PushOf(Y), PullOf(X))

\* The node holds peer 2, and there are lists X and Y for peer 2 with distinct
\* incarnations and one address of which the merge raises the incarnation
\* stored to the one Y gives, X giving a lower one that is above the stored.
MergeRaisesStored ==
    /\ server[Self].h_call = "process"
    /\ 2 \in DOMAIN server[Self].membership
    /\ \E X \in MergeLists : \E Y \in MergeLists :
          /\ X # <<>> /\ Y # <<>>
          /\ X[1].id = 2 /\ Y[1].id = 2
          /\ server[Self].membership[2].incarnation < X[1].incarnation
          /\ X[1].incarnation < Y[1].incarnation
          /\ DistinctIncs(server[Self], X, Y) /\ SameAddrs(server[Self], X, Y)
          /\ \A map \in MergedMaps(server[Self], PullOf(X), PushOf(Y)) :
                map[2].incarnation = Y[1].incarnation /\ map[2].state = Y[1].state

\* ----------------------------------------------------------- the rumor store

\* Node Self with n peers: as constructed for n = 0, and for n > 0 as one
\* process() of a Push from peer 2 that lists the peers 3 .. n + 1 leaves it
\* when every new peer is inserted at the end of the memberlist.
WithPeers(n, k) ==
    IF n = 0 THEN NewServer(Self, k)
    ELSE [NewServer(Self, k) EXCEPT
            !.incarnation = 2,
            !.membership = [i \in 2..(n + 1) |-> Peer(i, AddrOf(i), 0, "Alive")],
            !.memberlist = [i \in 1..n |-> i + 1],
            !.h_call = "process",
            !.h_in = [kind |-> "Push", seq_no |-> 0]]

InitStore ==
    /\ \E n \in 0..MaxMembers, k \in 1..MaxSubgroup :
          server = [x \in Nodes |-> IF x = Self THEN WithPeers(n, k) ELSE NewServer(x, k)]
    /\ net = {}
    /\ now = 0
    /\ turn = 0

\* The rumors pushed in SpecStore.
StoreRumors == {Rumor(2, "Suspect", 0, NoAddr), Rumor(2, "Alive", 1, AddrOf(2))}

\* BroadcastStore::push of a rumor.
PushCall(rumor) ==
    /\ server[Self].next_broadcast < MaxRumors
    /\ server' = [server EXCEPT ![Self] = StorePush(@, rumor)]
    /\ UNCHANGED <<net, now, turn>>

\* Server::gossip for one outgoing message.
GossipCall ==
    /\ server[Self].broadcasts # <<>>
    /\ server' = [server EXCEPT ![Self] = Gossip(@).server]
    /\ UNCHANGED <<net, now, turn>>

NextStore ==
    \/ \E rumor \in StoreRumors : PushCall(rumor)
    \/ GossipCall

SpecStore == InitStore /\ [][NextStore]_vars

\* The least k with 10^k >= m, for m >= 1.
RECURSIVE Digits(_, _)
Digits(m, pow) == IF pow >= m THEN 0 ELSE 1 + Digits(m, pow * 10)

\* ceil(3 * log10(m)): the least k with 10^k >= m^3.
CeilThreeLog10(m) == Digits(m * m * m, 1)

\* How often the entries of the store of node n have been attached so far.
Attached(n) == server[n].h_attached

Members(n) == Cardinality(DOMAIN server[n].membership)

PopsFewestSendsFirst ==
    LET data == server[Self].broadcasts
    IN data # <<>> =>
          LET item == HeapPop(data).item
          IN \A i \in DOMAIN data :
                \/ item.sends < data[i].sends
                \/ item.sends = data[i].sends /\ item.id <= data[i].id

\* The store ids of the entries that gossip() of server s pops for one message,
\* in the order of the gossip tail.
TailIds(s) ==
    GossipLoop([data |-> s.broadcasts, msgs |-> <<>>, ids |-> <<>>],
               MaxSends(Cardinality(DOMAIN s.membership))).ids

\* C21: the gossip tail that one call of gossip() builds holds no entry of the
\* store twice: an entry that replay_broadcast puts back during the call is not
\* popped again in it, and a message uses one send of a rumor at most.
TailHoldsEntryOnce ==
    LET ids == TailIds(server[Self])
    IN \A i \in DOMAIN ids : \A j \in DOMAIN ids : ids[i] = ids[j] => i = j

\* ------------------------------------------------- peers that never answer

\* The largest membership of SpecSilent, the protocol period in its time unit
\* and the most a tick is late.
MaxSilent == 2

SilentPeriod == 2

MaxJitter == 1

\* Past this age a pending ping is older than every period of SpecSilent:
\* gossip() sets suspicion_period = protocol_period * max_sends, and max_sends
\* is 3 up to eight members.
SilentCap == SilentPeriod * MaxSends(MaxSilent) + 1

\* Rank(x, used): the place of x among the numbers used, from 0.
Rank(x, used) == Cardinality({y \in used : y < x})

\* The node after d units of time without a call.  sent_at + period is
\* compared with now only and seq_no and the ids of the store with each other
\* only, so the clock stays at 0 with sent_at moved back by d (no further than
\* SilentCap), and seq_no, next_broadcast and the numbers held in pings and in
\* the store are the smallest of the same order.
Settled(s, d) ==
    LET seqs == {s.pings[n].seq_no : n \in DOMAIN s.pings}
        ids == {s.broadcasts[i].id : i \in DOMAIN s.broadcasts}
    IN IF s.status # "ok" THEN s
       ELSE [s EXCEPT
               !.pings = [n \in DOMAIN s.pings |->
                            [s.pings[n] EXCEPT
                               !.sent_at = Max(@ - d, 0 - SilentCap),
                               !.seq_no = Rank(@, seqs) + 1]],
               !.seq_no = Cardinality(seqs) + 1,
               !.broadcasts = [i \in DOMAIN s.broadcasts |->
                                 [s.broadcasts[i] EXCEPT !.id = Rank(@, ids)]],
               !.next_broadcast = Cardinality(ids),
               !.h_attached = EmptyMap]

\* A node with 1..MaxSilent members, none of which ever sends a message.
InitSilent ==
    /\ \E n \in 1..MaxSilent, k \in 1..MaxSubgroup, i \in 0..SilentPeriod,
          sp \in {SilentPeriod, SilentPeriod * MaxSends(MaxSilent)} :
          server = [x \in Nodes |->
                      IF x = Self
                      THEN [WithPeers(n, k) EXCEPT !.ping_interval = i,
                                                   !.protocol_period = SilentPeriod,
                                                   !.suspicion_period = sp]
                      ELSE NewServer(x, k)]
    /\ net = {}
    /\ now = 0
    /\ turn = 0

\* The node calls tick(), and the next call comes one protocol period later,
\* or up to MaxJitter after that.  turn is the parity of the calls made.
SilentTick(d) ==
    /\ Running(Self)
    /\ \E t \in Tick(server[Self], now) :
          server' = [server EXCEPT ![Self] = Settled(AfterTick(t), d)]
    /\ turn' = 1 - turn
    /\ UNCHANGED <<net, now>>

NextSilent == \E d \in SilentPeriod..(SilentPeriod + MaxJitter) : SilentTick(d)

\* One more call of tick() is made: every step of NextSilent is one, and one
\* can be made whenever the node runs.
Called == Running(Self) /\ turn' = 1 - turn

\* tick() keeps being called for as long as the calls return.
SpecSilent == InitSilent /\ [][NextSilent]_vars /\ WF_turn(Called)

\* The last tick() pushed a Suspect, a Failed rumor about b.
Suspects(b) == b \in server[Self].h_suspected

Fails(b) == b \in server[Self].h_failed

\* C15: a member that never answers is suspected and then declared failed,
\* whatever the size of the membership: unless a tick() panics or hangs, there
\* is a tick() that pushes a Suspect rumor about peer 2 and, after it, one that
\* pushes a Failed rumor about peer 2.
SilentPeerFails ==
    \/ <>(server[Self].status # "ok")
    \/ <>(Suspects(2) /\ <>Fails(2))

\* ------------------------------------------------- pending pings that expire

\* The bounds of SpecExpiry: members at the start, seq_no before a tick(),
\* incarnation before a process(), the clock.
MaxExpiryMembers == 2

MaxExpirySeq == 4

MaxExpiryInc == 3

MaxExpiryTime == 4

\* A peer id no node of SpecExpiry has in its membership.
UnknownPeer == 4

\* The messages of SpecExpiry, both from peer 3: a Ping whose gossip is a Failed
\* rumor about peer 2, and a PingReq for a target the node does not know.
ExpiryMessages ==
    {Message(Self, 3, AddrOf(3), 1, "Ping", 0, 0, NoAddr, <<>>,
             <<Rumor(2, "Failed", 0, NoAddr)>>),
     Message(Self, 3, AddrOf(3), 1, "PingReq", UnknownPeer, 0, AddrOf(UnknownPeer),
             <<>>, <<>>)}

\* A node with 1..MaxExpiryMembers members.
InitExpiry ==
    /\ \E n \in 1..MaxExpiryMembers, k \in 1..MaxSubgroup :
          server = [x \in Nodes |-> IF x = Self THEN WithPeers(n, k) ELSE NewServer(x, k)]
    /\ net = {}
    /\ now = 0
    /\ turn = 0

ExpiryTick ==
    /\ server[Self].seq_no <= MaxExpirySeq
    /\ Running(Self)
    /\ \E t \in Tick(server[Self], now) : server' = [server EXCEPT ![Self] = AfterTick(t)]
    /\ UNCHANGED <<net, now, turn>>

ExpiryProcess(m) ==
    /\ server[Self].incarnation <= MaxExpiryInc
    /\ DoProcess(Self, m)
    /\ UNCHANGED <<net, turn>>

ExpiryAdvance(d) ==
    /\ now + d <= MaxExpiryTime
    /\ now' = now + d
    /\ UNCHANGED <<server, net, turn>>

NextExpiry ==
    \/ ExpiryTick
    \/ \E m \in ExpiryMessages : ExpiryProcess(m)
    \/ \E d \in 1..MaxStep : ExpiryAdvance(d)

SpecExpiry == InitExpiry /\ [][NextExpiry]_vars

\* C20: the target of a pending ping that tick() finds older than
\* suspicion_period is a key of membership: the lookup of the suspicion branch
\* never fails, also after a Failed rumor about the target and for the pings a
\* PingReq made.
ExpiredPingOfMember == server[Self].h_panic # "member"

=============================================================================
